---- MODULE Spec2Model ----
(***************************************************************************)
(* Model of Qumulus's CRDT node engine (src/src/node.rs): Vis, Node,       *)
(* NodeTree, Update, External, DelegatedMatch and the two recursive        *)
(* algorithms merge and read.                                              *)
(*                                                                         *)
(* Encoding.  Option<T> is a sequence: None is << >>, Some(x) is <<x>>.    *)
(* A BTreeMap<String, T> is a function whose domain is a subset of Keys;   *)
(* it is iterated in key order (KeyOrder).  A Path is a sequence of        *)
(* strings.  Value::Null is the string "null".                             *)
(***************************************************************************)
EXTENDS Naturals, Sequences, FiniteSets, TLC

\* ------------------------------------------------------------------ bounds
MaxTs == 2          \* update / delete timestamps of diffs range over 1..MaxTs
MaxDeleg == 2       \* delegation markers of diffs range over 1..MaxDeleg
MaxOps == 3         \* number of merges applied to the stored tree
MaxReadOps == 2     \* number of merges before the reads of SpecRead
MaxArr == 2         \* number of elements of a JSON array

\* u64::max_value() stands for "later than every timestamp of the model"
U64Max == 99

Keys == {"a", "b"}
KeyOrder == <<"0", "1", "2", "3", "a", "b">>
Null == "null"
Scalars == {"x", "y"}

\* ------------------------------------------------------------------ Option
None == << >>
Some(x) == <<x>>
IsSome(o) == o # << >>
IsNone(o) == o = << >>

EmptyMap == << >>

\* The keys of map m in BTreeMap iteration order.
SortedKeys(m) == SelectSeq(KeyOrder, LAMBDA k : k \in DOMAIN m)

\* BTreeMap::insert
MapInsert(m, k, v) == [x \in (DOMAIN m) \cup {k} |-> IF x = k THEN v ELSE m[x]]

\* --------------------------------------------------------------------- Vis
VisNew(updated, deleted) == [updated |-> updated, deleted |-> deleted]
VisUpdate(updated) == VisNew(updated, 0)
VisDelete(deleted) == VisNew(0, deleted)
VisPermanent == VisUpdate(U64Max)
VisDefault == VisNew(0, 0)

\* A variant of descend that takes the child's timestamps as they are
descend_child(self, child) == child

\* Vis::descend: effective visibility given child visibility
descend(self, child) ==
    [updated |-> IF child.updated < self.updated THEN child.updated ELSE self.updated,
     deleted |-> IF child.deleted > self.deleted THEN child.deleted ELSE self.deleted]

\* A variant of is_visible that shows a node deleted at its update timestamp
is_visible_tie(self) == self.updated >= self.deleted

is_visible(self) == self.updated > self.deleted

\* A variant of Vis::merge that keeps self, whatever diff holds
VisMergeKeep(self, diff) == self

\* Vis::merge: keep newest data
VisMerge(self, diff) ==
    [updated |-> IF diff.updated > self.updated THEN diff.updated ELSE self.updated,
     deleted |-> IF diff.deleted > self.deleted THEN diff.deleted ELSE self.deleted]

\* -------------------------------------------------------------------- Node
MkNode(vis, value, keys, delegated) ==
    [vis |-> vis, value |-> value, keys |-> keys, delegated |-> delegated]

NodeDefault == MkNode(VisDefault, Null, None, 0)

\* Node::delete
NodeDelete(timestamp) == MkNode(VisDelete(timestamp), Null, None, 0)

\* Node::is_noop
NodeIsNoop(n) == n = NodeDefault

\* timestamp | 1 and timestamp & !1
SetBit0(t) == IF t % 2 = 1 THEN t ELSE t + 1
ClearBit0(t) == IF t % 2 = 1 THEN t - 1 ELSE t

\* Node::delegate / Node::undelegate
NodeDelegate(timestamp) == MkNode(VisDefault, Null, None, SetBit0(timestamp))
NodeUndelegate(timestamp) == MkNode(VisDefault, Null, None, ClearBit0(timestamp))

\* delegated & 1 > 0
Active(d) == d % 2 = 1

\* Node::delegated: what is moved out, and what stays
DelegatedOut(n) == MkNode(n.vis, n.value, n.keys, n.delegated)
DelegatedRest(n) == MkNode(VisDefault, Null, None, n.delegated)

\* Node::prepend_path
RECURSIVE prepend_path(_, _)
prepend_path(n, path) ==
    IF path = << >> THEN n
    ELSE MkNode(VisDefault, Null,
                Some([k \in {Head(path)} |-> prepend_path(n, Tail(path))]), 0)

\* ------------------------------------------------------------------ Update
MkUpdate(changed, old, new, keys, delegated) ==
    [changed |-> changed, old |-> old, new |-> new, keys |-> keys,
     delegated |-> delegated]

UpdateDefault == MkUpdate(FALSE, None, None, None, None)

\* Update::is_noop
UpdateIsNoop(u) ==
    /\ ~u.changed
    /\ IsNone(u.old)
    /\ IsNone(u.new)
    /\ IsNone(u.keys)

\* Update::add_child
UpdateAddChild(u, k, child_update) ==
    IF IsSome(child_update)
    THEN [u EXCEPT !.keys =
            Some(MapInsert(IF IsNone(u.keys) THEN EmptyMap ELSE u.keys[1],
                           k, child_update[1]))]
    ELSE u

MkExternal(path, node, vis, initial) ==
    [path |-> path, tree |-> [node |-> node, vis |-> vis], initial |-> initial]

\* ------------------------------------------------------------------- merge
\* A variant of MergeValue where the last writer wins: the diff's value is
\* adopted whenever its update timestamp differs from the stored one
MergeValueLast(node, diff) ==
    IF diff.vis.updated > 0 /\ diff.vis.updated # node.vis.updated
    THEN [node |-> [node EXCEPT !.value = diff.value,
                                !.vis.updated = diff.vis.updated],
          diff |-> diff,
          propagate |-> Some(NodeDefault),
          value_changed |-> (node.value # diff.value)]
    ELSE [node |-> node, diff |-> diff, propagate |-> None,
          value_changed |-> FALSE]

\* merge, "Merge value at node": the node, the diff, the propagate signal and
\* value_changed after the update timestamps have been compared.
MergeValue(node, diff) ==
    IF diff.vis.updated > node.vis.updated
    THEN [node |-> [node EXCEPT !.value = diff.value,
                                !.vis.updated = diff.vis.updated],
          diff |-> diff,
          propagate |-> Some(NodeDefault),
          value_changed |-> (node.value # diff.value)]
    ELSE IF diff.vis.updated < node.vis.updated
    THEN [node |-> node,
          diff |-> [diff EXCEPT !.vis.updated = 0, !.value = Null],
          propagate |-> None,
          value_changed |-> FALSE]
    ELSE [node |-> node, diff |-> diff, propagate |-> None,
          value_changed |-> FALSE]

\* A variant of MergeDelete where the last delete wins: the diff's delete
\* timestamp is adopted whenever it differs from the stored one
MergeDeleteLast(r) ==
    IF r.diff.vis.deleted > 0 /\ r.diff.vis.deleted # r.node.vis.deleted
    THEN [r EXCEPT
            !.node = [r.node EXCEPT
                        !.vis.deleted = r.diff.vis.deleted,
                        !.value = IF r.node.vis.updated < r.diff.vis.deleted
                                  THEN Null ELSE @],
            !.propagate = IF IsSome(r.propagate)
                          THEN Some([r.propagate[1] EXCEPT
                                       !.vis.deleted = r.diff.vis.deleted])
                          ELSE Some(NodeDelete(r.diff.vis.deleted))]
    ELSE [r EXCEPT !.diff = [r.diff EXCEPT !.vis.deleted = 0]]

\* merge, "Merge deletion", applied to the result r of MergeValue.
MergeDelete(r) ==
    IF r.diff.vis.deleted > r.node.vis.deleted
    THEN [r EXCEPT
            !.node = [r.node EXCEPT
                        !.vis.deleted = r.diff.vis.deleted,
                        !.value = IF r.node.vis.updated < r.diff.vis.deleted
                                  THEN Null ELSE @],
            !.propagate = IF IsSome(r.propagate)
                          THEN Some([r.propagate[1] EXCEPT
                                       !.vis.deleted = r.diff.vis.deleted])
                          ELSE Some(NodeDelete(r.diff.vis.deleted))]
    ELSE [r EXCEPT !.diff = [r.diff EXCEPT !.vis.deleted = 0]]

\* A variant of VisibilityUpdate that reports a node visible before and after
\* as changed even when its value is the same
VisibilityUpdateAlways(old_vis, new_vis, old_value, node, value_changed) ==
    IF ~old_vis /\ ~new_vis
    THEN UpdateDefault
    ELSE IF ~old_vis /\ new_vis
    THEN [UpdateDefault EXCEPT !.new = Some(node.value), !.changed = TRUE]
    ELSE IF old_vis /\ ~new_vis
    THEN [UpdateDefault EXCEPT !.old = Some(old_value), !.changed = TRUE]
    ELSE [UpdateDefault EXCEPT !.old = Some(old_value),
                               !.new = Some(node.value), !.changed = TRUE]

\* merge, the (old_vis, new_vis) table.  old_value is the node's value before
\* the merge, node the node after value and delete merge.
VisibilityUpdate(old_vis, new_vis, old_value, node, value_changed) ==
    IF ~old_vis /\ ~new_vis
    THEN UpdateDefault
    ELSE IF ~old_vis /\ new_vis
    THEN [UpdateDefault EXCEPT !.new = Some(node.value), !.changed = TRUE]
    ELSE IF old_vis /\ ~new_vis
    THEN [UpdateDefault EXCEPT !.old = Some(old_value), !.changed = TRUE]
    ELSE IF value_changed
    THEN [UpdateDefault EXCEPT !.old = Some(old_value),
                               !.new = Some(node.value), !.changed = TRUE]
    ELSE UpdateDefault

\* A variant of MergeDelegation that adopts every non-zero marker of the diff
\* that differs from the stored one
MergeDelegationAny(stack, node, diff) ==
    IF diff.delegated > 0 /\ diff.delegated # node.delegated
    THEN [node_delegated |-> diff.delegated,
          diff_delegated |-> diff.delegated,
          update_delegated |-> IF /\ Len(stack) > 0
                                  /\ Active(diff.delegated) # Active(node.delegated)
                               THEN Some(Active(diff.delegated)) ELSE None,
          initial |-> /\ Len(stack) > 0
                      /\ Active(diff.delegated) # Active(node.delegated)
                      /\ Active(diff.delegated)]
    ELSE [node_delegated |-> node.delegated,
          diff_delegated |-> 0,
          update_delegated |-> None,
          initial |-> FALSE]

\* merge, "Merge delegation (external) status of node": the delegation
\* marker of the node and of the diff, update.delegated and
\* initial_delegation.
MergeDelegation(stack, node, diff) ==
    IF diff.delegated > 0 /\ diff.delegated > node.delegated
    THEN LET changed == Len(stack) > 0
                        /\ Active(diff.delegated) # Active(node.delegated)
         IN [node_delegated |-> diff.delegated,
             diff_delegated |-> diff.delegated,
             update_delegated |-> IF changed THEN Some(Active(diff.delegated))
                                  ELSE None,
             initial |-> changed /\ Active(diff.delegated)]
    ELSE [node_delegated |-> node.delegated,
          diff_delegated |-> 0,
          update_delegated |-> None,
          initial |-> FALSE]

\* merge, the condition of "Handle delegated data"
HandlesDelegated(stack, node, initial) ==
    /\ Len(stack) > 0
    /\ Active(node.delegated)
    /\ (IsSome(node.keys) \/ node.value # Null \/ initial)

\* merge, the Update left when the delegated Zone notifies
DiscardUpdate(update) ==
    [update EXCEPT !.changed = FALSE, !.old = None, !.new = None, !.keys = None]

RECURSIVE merge(_, _, _, _, _)
RECURSIVE PropagateLoop(_, _, _, _, _, _, _)
RECURSIVE MergeKeysLoop(_, _, _, _, _, _, _)

\* One step of a loop over the children: the Externals of the child merge come
\* before those of the rest of the loop.
PrependExternals(child_externals, rest) ==
    [rest EXCEPT !.externals = child_externals \o rest.externals]

\* merge, "Propagate uncloaks / deletes": one iteration for key k, where c is
\* the merge of p_node into the child; the p_node the child merge left is
\* handed to the next iteration.
PropagateStep(stack, ks, node_keys, update, vis_old, vis_new, c) ==
    PrependExternals(c.externals,
        PropagateLoop(stack, Tail(ks), [node_keys EXCEPT ![Head(ks)] = c.node],
                      c.diff, UpdateAddChild(update, Head(ks), c.update),
                      vis_old, vis_new))

\* merge, "Propagate uncloaks / deletes": the loop over node_keys.  ks are the
\* keys still to visit; p_node is the one propagate node every child merge
\* receives as its diff and may modify.
PropagateLoop(stack, ks, node_keys, p_node, update, vis_old, vis_new) ==
    IF ks = << >>
    THEN [node_keys |-> node_keys, update |-> update, externals |-> << >>]
    ELSE PropagateStep(stack, ks, node_keys, update, vis_old, vis_new,
                       merge(Append(stack, Head(ks)), node_keys[Head(ks)],
                             p_node, vis_old, vis_new))

\* merge, "Merge keys": one iteration for key k, where c is the merge of the
\* diff child into the child (Entry::Occupied) or into an empty node
\* (Entry::Vacant), which is kept only if it is not a no-op.
MergeKeysStep(stack, ks, node_keys, diff_keys, update, vis_old, vis_new, c) ==
    PrependExternals(c.externals,
        MergeKeysLoop(stack, Tail(ks),
                      IF Head(ks) \in DOMAIN node_keys \/ ~NodeIsNoop(c.node)
                      THEN MapInsert(node_keys, Head(ks), c.node)
                      ELSE node_keys,
                      [diff_keys EXCEPT ![Head(ks)] = c.diff],
                      UpdateAddChild(update, Head(ks), c.update),
                      vis_old, vis_new))

\* merge, "Merge keys": the loop over diff_keys.
MergeKeysLoop(stack, ks, node_keys, diff_keys, update, vis_old, vis_new) ==
    IF ks = << >>
    THEN [node_keys |-> node_keys, diff_keys |-> diff_keys, update |-> update,
          externals |-> << >>]
    ELSE MergeKeysStep(stack, ks, node_keys, diff_keys, update, vis_old, vis_new,
                       merge(Append(stack, Head(ks)),
                             IF Head(ks) \in DOMAIN node_keys
                             THEN node_keys[Head(ks)] ELSE NodeDefault,
                             diff_keys[Head(ks)], vis_old, vis_new))

\* merge, "Propagate uncloaks / deletes".  r is the result of the value and
\* delete merge, update the Update of the visibility table.
Propagate(stack, r, update, vis_old, vis_new) ==
    IF IsSome(r.propagate) /\ IsSome(r.node.keys)
    THEN PropagateLoop(stack, SortedKeys(r.node.keys[1]), r.node.keys[1],
                       r.propagate[1], update, vis_old, vis_new)
    ELSE [node_keys |-> IF IsSome(r.node.keys) THEN r.node.keys[1] ELSE EmptyMap,
          update |-> update, externals |-> << >>]

\* merge, "Merge keys".  prop is the result of Propagate.
MergeKeys(stack, r, prop, vis_old, vis_new) ==
    IF IsSome(r.diff.keys)
    THEN PrependExternals(prop.externals,
            MergeKeysLoop(stack, SortedKeys(r.diff.keys[1]), prop.node_keys,
                          r.diff.keys[1], prop.update, vis_old, vis_new))
    ELSE [node_keys |-> prop.node_keys, diff_keys |-> EmptyMap,
          update |-> prop.update, externals |-> prop.externals]

\* A variant of HandleDelegated that emits the External but leaves the
\* delegated data in the stored node
HandleDelegatedKeep(stack, node, diff, update, externals, vis_new, initial) ==
    IF HandlesDelegated(stack, node, initial)
    THEN [node |-> node,
          diff |-> diff,
          update |-> IF initial
                     THEN (IF UpdateIsNoop(update) THEN None ELSE Some(update))
                     ELSE (IF UpdateIsNoop(DiscardUpdate(update)) THEN None
                           ELSE Some(DiscardUpdate(update))),
          externals |-> Append(externals,
                               MkExternal(stack, DelegatedOut(node), vis_new,
                                          initial))]
    ELSE [node |-> node,
          diff |-> diff,
          update |-> IF UpdateIsNoop(update) THEN None ELSE Some(update),
          externals |-> externals]

\* merge, "Handle delegated data" and the return.  node, diff and update are
\* those after the merge of the delegation status.
HandleDelegated(stack, node, diff, update, externals, vis_new, initial) ==
    IF HandlesDelegated(stack, node, initial)
    THEN [node |-> DelegatedRest(node),
          diff |-> diff,
          update |-> IF initial
                     THEN (IF UpdateIsNoop(update) THEN None ELSE Some(update))
                     ELSE (IF UpdateIsNoop(DiscardUpdate(update)) THEN None
                           ELSE Some(DiscardUpdate(update))),
          externals |-> Append(externals,
                               MkExternal(stack, DelegatedOut(node), vis_new,
                                          initial))]
    ELSE [node |-> node,
          diff |-> diff,
          update |-> IF UpdateIsNoop(update) THEN None ELSE Some(update),
          externals |-> externals]

\* merge, from "Merge delegation (external) status of node" on.  r is the
\* result of the value and delete merge, mk the result of MergeKeys, dg the
\* result of MergeDelegation.
Delegate(stack, r, mk, dg, vis_new) ==
    HandleDelegated(stack,
        [r.node EXCEPT !.keys = IF IsSome(r.node.keys) \/ IsSome(r.diff.keys)
                                THEN Some(mk.node_keys) ELSE None,
                       !.delegated = dg.node_delegated],
        [r.diff EXCEPT !.keys = IF IsSome(r.diff.keys) THEN Some(mk.diff_keys)
                                ELSE None,
                       !.delegated = dg.diff_delegated],
        [mk.update EXCEPT !.delegated = dg.update_delegated],
        mk.externals, vis_new, dg.initial)

\* merge, after the value and delete merge r.  vis_old and vis_new are the
\* effective visibility of this node before and after.
MergeBelow(stack, old_value, r, vis_old, vis_new) ==
    Delegate(stack, r,
             MergeKeys(stack, r,
                       Propagate(stack, r,
                                 VisibilityUpdate(is_visible(vis_old),
                                                  is_visible(vis_new),
                                                  old_value, r.node,
                                                  r.value_changed),
                                 vis_old, vis_new),
                       vis_old, vis_new),
             MergeDelegation(stack, r.node, r.diff), vis_new)

\* merge, with r the result of the value and delete merge
MergeOwn(stack, node, r, vis_old0, vis_new0) ==
    MergeBelow(stack, node.value, r, descend(vis_old0, node.vis),
               descend(vis_new0, r.node.vis))

\* The internal merge function.  vis_old0 and vis_new0 are the old and new
\* visibility of the parent node.  The result holds the node and the diff as
\* the call leaves them, the returned Option<Update> and the Externals the call
\* pushed, in order.
merge(stack, node, diff, vis_old0, vis_new0) ==
    MergeOwn(stack, node, MergeDelete(MergeValue(node, diff)), vis_old0, vis_new0)

\* Node::merge
NodeMerge(self, diff, vis_old, vis_new) ==
    merge(<< >>, self, diff, vis_old, vis_new)

\* NodeTree::merge, after diff.vis.merge(&self.vis): diff_vis is the diff's
\* vis, r the result of Node::merge.
NodeTreeMerged(diff_vis, r) ==
    [tree |-> [node |-> r.node, vis |-> diff_vis],
     diff |-> [node |-> r.diff, vis |-> diff_vis],
     update |-> r.update,
     externals |-> r.externals]

\* NodeTree::merge.  The result holds the tree and the diff as the call leaves
\* them, the Update and the Externals.
NodeTreeMerge(self, diff) ==
    NodeTreeMerged(VisMerge(diff.vis, self.vis),
                   NodeMerge(self.node, diff.node, self.vis,
                             VisMerge(diff.vis, self.vis)))

\* -------------------------------------------------------------------- read
\* Path::slice(pos): the segments of path from position pos (0-based) on
Slice(path, pos) == SubSeq(path, pos + 1, Len(path))

MkDelegatedMatch(path, match_spec) == [path |-> path, match_spec |-> match_spec]

RECURSIVE read(_, _, _, _, _)
RECURSIVE ReadLoop(_, _, _, _, _, _, _)

\* read, one iteration of "for (k, node_child) in node_keys.iter()", where c
\* is the read of the child.
ReadStep(stack, ks, node_keys, vis, path, pos, update, c) ==
    [matches |-> c.matches \o
                 ReadLoop(stack, Tail(ks), node_keys, vis, path, pos,
                          UpdateAddChild(update, Head(ks), c.update)).matches,
     update |-> ReadLoop(stack, Tail(ks), node_keys, vis, path, pos,
                         UpdateAddChild(update, Head(ks), c.update)).update]

\* read, the loops over the children: every child in ks is read with
\* (path, pos) and its Update added under its key.
ReadLoop(stack, ks, node_keys, vis, path, pos, update) ==
    IF ks = << >>
    THEN [update |-> update, matches |-> << >>]
    ELSE ReadStep(stack, ks, node_keys, vis, path, pos, update,
                  read(Append(stack, Head(ks)), node_keys[Head(ks)], vis, path,
                       pos))

\* A variant of ReadChildren where "*" does not advance the position in the
\* pattern
ReadChildrenStarDeep(stack, node, vis, path, pos) ==
    IF pos < Len(path) /\ IsSome(node.keys)
    THEN IF path[pos + 1] = "**"
         THEN ReadLoop(stack, SortedKeys(node.keys[1]), node.keys[1], vis,
                       <<"*#">>, 0, UpdateDefault)
         ELSE IF path[pos + 1] = "*#" \/ path[pos + 1] = "*"
         THEN ReadLoop(stack, SortedKeys(node.keys[1]), node.keys[1], vis,
                       path, pos, UpdateDefault)
         ELSE IF path[pos + 1] \in DOMAIN node.keys[1]
         THEN ReadLoop(stack, <<path[pos + 1]>>, node.keys[1], vis,
                       path, pos + 1, UpdateDefault)
         ELSE [update |-> UpdateDefault, matches |-> << >>]
    ELSE [update |-> UpdateDefault, matches |-> << >>]

\* read, "Match / get child / self values": the Update holding the children
\* that match path[pos], and their DelegatedMatches.
ReadChildren(stack, node, vis, path, pos) ==
    IF pos < Len(path) /\ IsSome(node.keys)
    THEN IF path[pos + 1] = "*"
         THEN ReadLoop(stack, SortedKeys(node.keys[1]), node.keys[1], vis,
                       path, pos + 1, UpdateDefault)
         ELSE IF path[pos + 1] = "**"
         THEN ReadLoop(stack, SortedKeys(node.keys[1]), node.keys[1], vis,
                       <<"*#">>, 0, UpdateDefault)
         ELSE IF path[pos + 1] = "*#"
         THEN ReadLoop(stack, SortedKeys(node.keys[1]), node.keys[1], vis,
                       path, pos, UpdateDefault)
         ELSE IF path[pos + 1] \in DOMAIN node.keys[1]
         THEN ReadLoop(stack, <<path[pos + 1]>>, node.keys[1], vis,
                       path, pos + 1, UpdateDefault)
         ELSE [update |-> UpdateDefault, matches |-> << >>]
    ELSE [update |-> UpdateDefault, matches |-> << >>]

\* A variant of ReadSelfValue that reads the value of every node reached
ReadSelfValueAlways(stack, path, pos) == TRUE

\* read, read_self_value
ReadSelfValue(stack, path, pos) ==
    \/ Len(stack) >= Len(path)
    \/ (pos < Len(path) /\ path[pos + 1] = "*#")

\* read, "Get value at this node" and the return.  children is the result of
\* ReadChildren.
ReadSelf(stack, node, vis, path, pos, children) ==
    IF ReadSelfValue(stack, path, pos) /\ is_visible(vis)
    THEN [update |-> Some([children.update EXCEPT !.changed = TRUE,
                                                  !.new = Some(node.value)]),
          matches |-> children.matches]
    ELSE [update |-> IF UpdateIsNoop(children.update) THEN None
                     ELSE Some(children.update),
          matches |-> children.matches]

\* A variant of read that hands the delegated Zone the whole pattern instead
\* of the part not yet matched
read_unsliced(stack, node, vis0, path, pos) ==
    IF Len(stack) > 0 /\ Active(node.delegated)
    THEN [update |-> Some([UpdateDefault EXCEPT !.delegated = Some(TRUE)]),
          matches |-> <<MkDelegatedMatch(stack, path)>>]
    ELSE ReadSelf(stack, node, descend(vis0, node.vis), path, pos,
                  ReadChildren(stack, node, descend(vis0, node.vis), path, pos))

\* The internal read function.  vis0 is the visibility of the parent node, pos
\* the 0-based position in path.  The result holds the returned Option<Update>
\* and the DelegatedMatches the call pushed, in order.
read(stack, node, vis0, path, pos) ==
    IF Len(stack) > 0 /\ Active(node.delegated)
    THEN [update |-> Some([UpdateDefault EXCEPT !.delegated = Some(TRUE)]),
          matches |-> <<MkDelegatedMatch(stack, Slice(path, pos))>>]
    ELSE ReadSelf(stack, node, descend(vis0, node.vis), path, pos,
                  ReadChildren(stack, node, descend(vis0, node.vis), path, pos))

\* Node::read
NodeRead(self, vis, path) == read(<< >>, self, vis, path, 0)

\* NodeTree::read
NodeTreeRead(self, path) == NodeRead(self.node, self.vis, path)

\* ------------------------------------------------------------------ expand
\* serde_json::Value: null, a bool, a number (an unsigned integer, as its
\* bits, most significant first), a string, an object (a map from keys to
\* JSON) or an array (a sequence of JSON)
JNull == [type |-> "null"]
JBool(b) == [type |-> "bool", b |-> b]
JNumber(bits) == [type |-> "number", bits |-> bits]
JString(s) == [type |-> "string", s |-> s]
JObject(fields) == [type |-> "object", fields |-> fields]
JArray(elems) == [type |-> "array", elems |-> elems]

\* The bits of the significand of an f64
F64Bits == 53

\* n zero bits
Zeros(n) == [i \in 1..n |-> 0]

\* The bits of the integer one greater
RECURSIVE Inc(_)
Inc(bits) ==
    IF bits = << >> THEN <<1>>
    ELSE IF bits[Len(bits)] = 0
    THEN SubSeq(bits, 1, Len(bits) - 1) \o <<1>>
    ELSE Inc(SubSeq(bits, 1, Len(bits) - 1)) \o <<0>>

\* Rounding to nearest, ties to even: the bits rest cut off below the
\* significand top round up
RoundsUp(top, rest) ==
    /\ rest[1] = 1
    /\ \/ \E i \in 2..Len(rest) : rest[i] = 1
       \/ top[Len(top)] = 1

\* Number::as_f64 of an unsigned integer (n as f64): the integer the f64
\* equals, as its bits
AsF64(bits) ==
    IF Len(bits) <= F64Bits THEN bits
    ELSE (IF RoundsUp(SubSeq(bits, 1, F64Bits), SubSeq(bits, F64Bits + 1, Len(bits)))
          THEN Inc(SubSeq(bits, 1, F64Bits))
          ELSE SubSeq(bits, 1, F64Bits))
         \o Zeros(Len(bits) - F64Bits)

\* The digits of an integer given by its bits
RECURSIVE BitString(_)
BitString(bits) ==
    IF bits = << >> THEN ""
    ELSE (IF Head(bits) = 1 THEN "1" ELSE "0") \o BitString(Tail(bits))

\* Value::Bool(v), Value::F64 of the f64 that equals the integer bits
ValueBool(v) == IF v THEN "true" ELSE "false"
ValueF64(bits) == "#" \o BitString(bits)

\* usize::to_string of an array index
IndexKey(i) == ToString(i)

\* Node::expand
RECURSIVE expand(_, _)
expand(data, timestamp) ==
    IF data.type = "null"
    THEN MkNode(VisUpdate(timestamp), Null, None, 0)
    ELSE IF data.type = "bool"
    THEN MkNode(VisUpdate(timestamp), ValueBool(data.b), None, 0)
    ELSE IF data.type = "number"
    THEN MkNode(VisUpdate(timestamp), ValueF64(AsF64(data.bits)), None, 0)
    ELSE IF data.type = "string"
    THEN MkNode(VisUpdate(timestamp), data.s, None, 0)
    ELSE IF data.type = "object"
    THEN MkNode(VisUpdate(timestamp), Null,
                Some([k \in DOMAIN data.fields |->
                        expand(data.fields[k], timestamp)]), 0)
    ELSE MkNode(VisUpdate(timestamp), Null,
                Some([k \in {IndexKey(i - 1) : i \in DOMAIN data.elems} |->
                        expand(data.elems[CHOOSE i \in DOMAIN data.elems :
                                             IndexKey(i - 1) = k],
                               timestamp)]), 0)

\* Node::expand_from
RECURSIVE expand_from(_, _, _)
expand_from(path, data, timestamp) ==
    IF Len(path) = 0
    THEN expand(data, timestamp)
    ELSE MkNode(VisDefault, Null,
                Some([k \in {Head(path)} |->
                        expand_from(Tail(path), data, timestamp)]), 0)

\* ------------------------------------------------------- Update rendering
\* The JSON of a Value: Value::String holds one of Scalars, Value::Bool one
\* of the two bools, any other Value but Null is a Value::F64
ValueJson(v) ==
    IF v = Null THEN JNull
    ELSE IF v \in Scalars THEN JString(v)
    ELSE IF v = ValueBool(TRUE) \/ v = ValueBool(FALSE) THEN JBool(v = ValueBool(TRUE))
    ELSE [type |-> "number", f64 |-> v]

\* Update::to_json / Update::filter, "let value = match self.new"
NewJson(new) == IF IsNone(new) THEN JNull ELSE ValueJson(new[1])

\* Update::to_json
RECURSIVE to_json(_)
to_json(self) ==
    JArray(<<IF IsNone(self.keys) THEN JNull
             ELSE JObject([k \in {j \in DOMAIN self.keys[1] :
                                    self.keys[1][j].delegated # Some(TRUE)} |->
                             to_json(self.keys[1][k])]),
             IF self.changed THEN JBool(IsSome(self.new)) ELSE JNull,
             NewJson(self.new)>>)

\* A variant of filter whose literal branch returns what the child returned,
\* not wrapped under the key
RECURSIVE filter(_, _)
filter_unwrapped(self, path) ==
    IF path = << >>
    THEN (IF ~self.changed THEN JNull
          ELSE JArray(<<JNull, JBool(IsSome(self.new)), NewJson(self.new)>>))
    ELSE IF path[1] = "**" \/ path[1] = "*#"
    THEN to_json(self)
    ELSE IF path[1] = "*"
    THEN (IF IsSome(self.keys)
          THEN JArray(<<JObject([k \in {j \in DOMAIN self.keys[1] :
                                          /\ self.keys[1][j].delegated # Some(TRUE)
                                          /\ filter(self.keys[1][j], Tail(path)) # JNull} |->
                                   filter(self.keys[1][k], Tail(path))]),
                        JNull, JNull>>)
          ELSE JNull)
    ELSE IF IsSome(self.keys) /\ path[1] \in DOMAIN self.keys[1]
    THEN filter(self.keys[1][path[1]], Tail(path))
    ELSE JNull

\* Update::filter: the JSON of what in Update self matches path, JNull when
\* nothing matches
filter(self, path) ==
    IF path = << >>
    THEN (IF ~self.changed THEN JNull
          ELSE JArray(<<JNull, JBool(IsSome(self.new)), NewJson(self.new)>>))
    ELSE IF path[1] = "**" \/ path[1] = "*#"
    THEN to_json(self)
    ELSE IF path[1] = "*"
    THEN (IF IsSome(self.keys)
          THEN JArray(<<JObject([k \in {j \in DOMAIN self.keys[1] :
                                          /\ self.keys[1][j].delegated # Some(TRUE)
                                          /\ filter(self.keys[1][j], Tail(path)) # JNull} |->
                                   filter(self.keys[1][k], Tail(path))]),
                        JNull, JNull>>)
          ELSE JNull)
    ELSE IF IsSome(self.keys) /\ path[1] \in DOMAIN self.keys[1]
    THEN (IF filter(self.keys[1][path[1]], Tail(path)) = JNull THEN JNull
          ELSE JArray(<<JObject([k \in {path[1]} |->
                                   filter(self.keys[1][path[1]], Tail(path))]),
                        JNull, JNull>>))
    ELSE JNull

\* ------------------------------------------------------------------ inputs
\* Paths of at most n segments
Paths(n) == UNION {[1..i -> Keys] : i \in 0..n}

JScalars == {JNull} \cup {JString(v) : v \in Scalars}
JObjects1 == {JObject([k \in Keys |-> JString("x")])}
JObjects2 == {JObject([k \in {k1} |-> JObject([j \in Keys |-> JString("x")])]) :
                k1 \in Keys}
JObjectsNull == {JObject([k \in Keys |-> IF k = "a" THEN JNull ELSE JString("x")])}

Timestamps == 1..MaxTs

\* The diffs a Zone builds: writes (expand_from), recursive deletes
\* (Node::delete under prepend_path) and delegation changes (Node::delegate
\* for an odd marker, Node::undelegate for an even one, under prepend_path).
WriteDiffs ==
    {expand_from(p, j, t) : p \in Paths(1), j \in JScalars, t \in Timestamps}
    \cup {expand_from(p, JString("x"), t) : p \in Paths(2), t \in Timestamps}
    \cup {expand_from(p, j, t) : p \in Paths(1), j \in JObjects1, t \in Timestamps}
    \cup {expand_from(p, j, t) : p \in Paths(0), j \in JObjects2, t \in Timestamps}
    \cup {expand_from(p, j, t) : p \in Paths(0), j \in JObjectsNull, t \in Timestamps}
DeleteDiffs ==
    {prepend_path(NodeDelete(t), p) : p \in Paths(2), t \in Timestamps}
DelegateDiffs ==
    {prepend_path(IF Active(m) THEN NodeDelegate(m) ELSE NodeUndelegate(m), p) :
        p \in Paths(1), m \in 1..MaxDeleg}
\* a diff that addresses a path and carries nothing (NodeDefault under
\* prepend_path); the empty path gives the no-op diff
PlaceholderDiffs == {prepend_path(NodeDefault, p) : p \in Paths(2)}
NodeDiffs == WriteDiffs \cup DeleteDiffs \cup DelegateDiffs \cup PlaceholderDiffs

\* The patterns of reads: literal keys, "*", "**" and "*#"
Patterns ==
    {<<"*#">>, <<"**">>, <<"*">>, << >>, <<"a">>, <<"a", "b">>, <<"a", "*">>,
     <<"*", "a">>, <<"a", "*#">>, <<"a", "**">>, <<"*", "*">>, <<"**", "a">>}

\* Ancestor visibility claims a diff NodeTree can carry
VisDiffs == {VisUpdate(t) : t \in Timestamps} \cup {VisDelete(t) : t \in Timestamps}

\* Node::noop_vis
noop_vis(n) == [node |-> n, vis |-> VisDefault]

\* ------------------------------------------------------------------- state
VARIABLES
    tree,       \* the stored NodeTree
    prev,       \* the stored NodeTree before the last merge
    diff0,      \* the diff handed to the last merge
    pdiff0,     \* the diff handed to the merge before the last
    diff,       \* that diff as the merge left it
    update,     \* the Option<Update> the last merge returned
    externals,  \* the Externals the last merge returned
    swapped,    \* a replica that merged the last two diffs in the other order
    op,         \* the last operation
    nops,       \* the number of merges so far
    pattern,    \* the pattern of the last read
    rupdate,    \* the Option<Update> the last read returned
    matches,    \* the DelegatedMatches the last read returned
    edata,      \* the JSON handed to the last expand
    ets,        \* the timestamp handed to the last expand
    epath,      \* the path handed to the last expand_from
    descent,    \* the last descent: a Vis, two child Vis, and what descend gave
    zdata,      \* Zone.data: the node of the ZoneData
    zlock,      \* the thread that holds the write lock of Zone.data, 0 for none
    zpc,        \* where each thread is in Zone::write
    zargs,      \* the arguments of each thread's Zone::write
    zdiff,      \* the local diff of each thread's Zone::write
    owner,      \* the NodeTree of the zone that owns the delegated node
    plain       \* one tree that merged the same diffs without the delegation

evars == <<edata, ets, epath>>

zvars == <<zdata, zlock, zpc, zargs, zdiff>>

\* the state of merges and reads, but for op
mvars == <<tree, prev, diff0, pdiff0, diff, update, externals, swapped, nops,
           pattern, rupdate, matches>>

vars == <<tree, prev, diff0, pdiff0, diff, update, externals, swapped, op, nops,
          pattern, rupdate, matches, evars, descent, zvars, owner, plain>>

\* The threads that call Zone::write
Writers == {1, 2}

\* No descent yet
InitDescent ==
    descent = [self |-> VisDefault, child1 |-> VisDefault, child2 |-> VisDefault,
               first |-> VisDefault, second |-> VisDefault]

\* Zone::new: the data is the expansion of Null at timestamp 0, behind a lock
\* that nobody holds; no thread is in write
ZoneNew ==
    /\ zdata = expand(JNull, 0)
    /\ zlock = 0
    /\ zpc = [w \in Writers |-> "idle"]
    /\ zargs = [w \in Writers |-> [path |-> << >>, ts |-> 0, value |-> JNull]]
    /\ zdiff = [w \in Writers |-> NodeDefault]

TreeDefault == [node |-> NodeDefault, vis |-> VisPermanent]

Init ==
    /\ tree = TreeDefault
    /\ prev = TreeDefault
    /\ diff0 = noop_vis(NodeDefault)
    /\ pdiff0 = noop_vis(NodeDefault)
    /\ diff = noop_vis(NodeDefault)
    /\ update = None
    /\ externals = << >>
    /\ swapped = TreeDefault
    /\ op = "init"
    /\ nops = 0
    /\ pattern = << >>
    /\ rupdate = None
    /\ matches = << >>
    /\ edata = JNull
    /\ ets = 0
    /\ epath = << >>
    /\ InitDescent
    /\ ZoneNew
    /\ owner = noop_vis(NodeDefault)
    /\ plain = tree

\* The replica: from the tree before the last merge, d first and the last
\* diff second.
Swapped(d) == NodeTreeMerge(NodeTreeMerge(prev, d).tree, diff0).tree

\* The state after tree.merge(&mut d) returned r
Merged(d, r, name) ==
    /\ tree' = r.tree
    /\ diff' = r.diff
    /\ update' = r.update
    /\ externals' = r.externals
    /\ swapped' = Swapped(d)
    /\ prev' = tree
    /\ diff0' = d
    /\ pdiff0' = diff0
    /\ op' = name
    /\ nops' = nops + 1
    /\ UNCHANGED <<pattern, rupdate, matches, evars, descent, zvars>>

\* tree.merge(&mut d)
MergeStep(d, name) ==
    /\ Merged(d, NodeTreeMerge(tree, d), name)
    /\ UNCHANGED <<owner, plain>>

\* a write, delete or delegation change under an unchanged ancestor window
MergeNode ==
    /\ nops < MaxOps
    /\ \E n \in NodeDiffs : MergeStep(noop_vis(n), "merge")

\* a change of the ancestor visibility alone
MergeVis ==
    /\ nops < MaxOps
    /\ \E v \in VisDiffs : MergeStep([node |-> NodeDefault, vis |-> v], "vis")

\* the diff the last merge left is merged again
Remerge ==
    /\ nops < MaxOps
    /\ op \in {"merge", "vis"}
    /\ MergeStep(diff, "remerge")

Next == MergeNode \/ MergeVis \/ Remerge

Spec == Init /\ [][Next]_vars

\* -------------------------------------------------- reads of the stored tree
\* a merge of the reading specification
ReadMerge ==
    /\ nops < MaxReadOps
    /\ \E n \in NodeDiffs : MergeStep(noop_vis(n), "merge")

\* The state after tree.read(&path) returned r
ReadDone(path, r) ==
    /\ pattern' = path
    /\ rupdate' = r.update
    /\ matches' = r.matches
    /\ op' = "read"
    /\ UNCHANGED <<tree, prev, diff0, pdiff0, diff, update, externals, swapped,
                   nops, evars, descent, zvars, owner, plain>>

\* tree.read(&path)
Read == \E path \in Patterns : ReadDone(path, NodeTreeRead(tree, path))

NextRead == ReadMerge \/ Read

SpecRead == Init /\ [][NextRead]_vars

\* ------------------------------------------------- expand and expand_from
\* The JSON values handed to expand: scalars, objects and arrays of scalars,
\* and objects and arrays holding one of those
Num42 == <<1, 0, 1, 0, 1, 0>>
NumBig == <<1>> \o Zeros(F64Bits - 1) \o <<1>>
JLeaves == {JNull, JBool(TRUE), JString("x"), JNumber(Num42), JNumber(NumBig)}
JFlat ==
    JLeaves
    \cup {JObject(f) : f \in UNION {[S -> JLeaves] : S \in SUBSET Keys}}
    \cup {JArray(e) : e \in UNION {[1..n -> JLeaves] : n \in 0..MaxArr}}
JValues ==
    JFlat
    \cup {JObject([k \in {"a"} |-> v]) : v \in JFlat}
    \cup {JArray(<<v>>) : v \in JFlat}

ExpandTimestamps == 0..MaxTs

\* The state after Node::expand(d, t) returned n and a NodeTree of n under a
\* permanent window was read with ["*#"], which returned r
Expanded(d, t, n, r) ==
    /\ edata' = d
    /\ ets' = t
    /\ epath' = << >>
    /\ tree' = [node |-> n, vis |-> VisPermanent]
    /\ diff' = noop_vis(NodeDefault)
    /\ pattern' = <<"*#">>
    /\ rupdate' = r.update
    /\ matches' = r.matches
    /\ op' = "expand"
    /\ UNCHANGED <<prev, diff0, pdiff0, update, externals, swapped, nops,
                   descent, zvars, owner, plain>>

\* Node::expand(d, t), read back in full; every behaviour holds one call
Expand ==
    /\ op = "init"
    /\ \E d \in JValues, t \in ExpandTimestamps :
       Expanded(d, t, expand(d, t),
                NodeTreeRead([node |-> expand(d, t), vis |-> VisPermanent],
                             <<"*#">>))

\* Node::expand_from(path, d, t): the diff of a write
ExpandFrom ==
    /\ op = "init"
    /\ \E d \in JValues, t \in ExpandTimestamps, path \in Paths(2) :
       /\ edata' = d
       /\ ets' = t
       /\ epath' = path
       /\ diff' = noop_vis(expand_from(path, d, t))
       /\ tree' = TreeDefault
       /\ pattern' = << >>
       /\ rupdate' = None
       /\ matches' = << >>
       /\ op' = "expand_from"
       /\ UNCHANGED <<prev, diff0, pdiff0, update, externals, swapped, nops,
                   descent, zvars, owner, plain>>

NextExpand == Expand \/ ExpandFrom

SpecExpand == Init /\ [][NextExpand]_vars

\* ------------------------------------------------------------ descents
\* The Vis of a tree, a diff or a node: every pair of timestamps, and
\* Vis::permanent()
TreeVises == {VisNew(u, d) : u \in 0..MaxTs, d \in 0..MaxTs} \cup {VisPermanent}

\* self.descend(child1) and then .descend(child2), for any three Vis; every
\* behaviour holds one descent
Descend ==
    /\ op = "init"
    /\ \E v \in TreeVises, c1 \in TreeVises, c2 \in TreeVises :
          descent' = [self |-> v, child1 |-> c1, child2 |-> c2,
                      first |-> descend(v, c1),
                      second |-> descend(descend(v, c1), c2)]
    /\ op' = "descend"
    /\ UNCHANGED <<mvars, evars, zvars, owner, plain>>

NextDescend == Descend

SpecDescend == Init /\ [][NextDescend]_vars

\* --------------------------------------------------------- Zone::write
\* Zone::dispatch of a Call::Write, and Zone::write up to
\* "let mut diff = Node::expand(&value, ts)"
ZoneWrite(w) ==
    /\ zpc[w] \in {"idle", "returned"}
    /\ \E path \in Paths(1), ts \in Timestamps, value \in JScalars \ {JNull} :
          /\ zargs' = [zargs EXCEPT ![w] = [path |-> path, ts |-> ts, value |-> value]]
          /\ zdiff' = [zdiff EXCEPT ![w] = expand(value, ts)]
    /\ zpc' = [zpc EXCEPT ![w] = "expanded"]
    /\ op' = "write"
    /\ UNCHANGED <<mvars, evars, descent, owner, plain>>
    /\ UNCHANGED <<zdata, zlock>>

\* Zone::write, "let mut data = self.data.write().unwrap()": blocks while
\* another thread holds the lock
ZoneLock(w) ==
    /\ zpc[w] = "expanded"
    /\ zlock = 0
    /\ zlock' = w
    /\ zpc' = [zpc EXCEPT ![w] = "locked"]
    /\ op' = "write"
    /\ UNCHANGED <<mvars, evars, descent, owner, plain>>
    /\ UNCHANGED <<zdata, zargs, zdiff>>

\* Zone::write, from the lock to the return: nothing but comments; the guard
\* is dropped and the lock released
ZoneReturn(w) ==
    /\ zpc[w] = "locked"
    /\ zlock' = 0
    /\ zpc' = [zpc EXCEPT ![w] = "returned"]
    /\ op' = "write"
    /\ UNCHANGED <<mvars, evars, descent, owner, plain>>
    /\ UNCHANGED <<zdata, zargs, zdiff>>

NextZone == \E w \in Writers : ZoneWrite(w) \/ ZoneLock(w) \/ ZoneReturn(w)

SpecZone == Init /\ [][NextZone]_vars

\* ------------------------------------------------------ two zones
\* The originating zone holds tree and hands the node at ["a"] to the owning
\* zone; the zones are connected as spec.md describes (Delegation handoff,
\* Read handoff), which is no code of the repository.
MaxCrossOps == 3

\* The owning zone's tree after the Externals exts of one merge have been
\* forwarded to it, each merged as a NodeTree diff, in order
RECURSIVE Forwarded(_, _)
Forwarded(o, exts) ==
    IF exts = << >> THEN o
    ELSE Forwarded(NodeTreeMerge(o, Head(exts).tree).tree, Tail(exts))

\* The state after the originating zone merged d, its Externals were
\* forwarded, and the tree without delegation merged u
CrossMerged(d, u) ==
    /\ Merged(d, NodeTreeMerge(tree, d), "cross")
    /\ owner' = Forwarded(owner, NodeTreeMerge(tree, d).externals)
    /\ plain' = NodeTreeMerge(plain, u).tree

\* a diff merged by the originating zone: the delegation of ["a"], a write or
\* a delete at, above or below ["a"], or a change of the ancestor visibility
CrossMerge ==
    /\ nops < MaxCrossOps
    /\ \/ CrossMerged(noop_vis(prepend_path(NodeDelegate(1), <<"a">>)),
                       noop_vis(prepend_path(NodeDefault, <<"a">>)))
       \/ \E p \in {<< >>, <<"a">>, <<"a", "b">>}, t \in Timestamps :
             \/ CrossMerged(noop_vis(expand_from(p, JString("x"), t)),
                            noop_vis(expand_from(p, JString("x"), t)))
             \/ CrossMerged(noop_vis(prepend_path(NodeDelete(t), p)),
                            noop_vis(prepend_path(NodeDelete(t), p)))
       \/ \E v \in VisDiffs :
             CrossMerged([node |-> NodeDefault, vis |-> v],
                         [node |-> NodeDefault, vis |-> v])

\* a read of the originating zone; its DelegatedMatches are re-issued against
\* the owning zone when the result is put together
CrossRead ==
    /\ op = "cross"
    /\ \E path \in {<<"*#">>, <<"*">>, <<"a">>, <<"a", "*#">>, <<"a", "b">>} :
          /\ pattern' = path
          /\ rupdate' = NodeTreeRead(tree, path).update
          /\ matches' = NodeTreeRead(tree, path).matches
    /\ op' = "cross read"
    /\ UNCHANGED <<tree, prev, diff0, pdiff0, diff, update, externals, swapped,
                   nops, evars, descent, zvars, owner, plain>>

NextCross == CrossMerge \/ CrossRead

SpecCross == Init /\ [][NextCross]_vars

\* ------------------------------------------- merges into any NodeTree
\* NodeTree { node, vis } is built with any ancestor visibility: a tree
\* starts empty or with an expanded object, under any of TreeVises; a diff
\* claims any of them but permanent
MaxTreeOps == 2

\* The node diffs merged along with a visibility claim: writes and deletes at
\* the root and at one key, delegation changes of one key, and the no-op node
TreeNodeDiffs ==
    {expand_from(p, JString("x"), t) : p \in Paths(1), t \in Timestamps}
    \cup {prepend_path(NodeDelete(t), p) : p \in Paths(1), t \in Timestamps}
    \cup {prepend_path(IF Active(m) THEN NodeDelegate(m) ELSE NodeUndelegate(m),
                        <<"a">>) : m \in 1..MaxDeleg}
    \cup {NodeDefault}

InitTree ==
    /\ tree \in {[node |-> n, vis |-> v] :
                   n \in {NodeDefault} \cup {expand(j, 1) : j \in JObjects1},
                   v \in TreeVises}
    /\ prev = tree
    /\ swapped = tree
    /\ diff0 = noop_vis(NodeDefault)
    /\ pdiff0 = noop_vis(NodeDefault)
    /\ diff = noop_vis(NodeDefault)
    /\ update = None
    /\ externals = << >>
    /\ op = "init"
    /\ nops = 0
    /\ pattern = << >>
    /\ rupdate = None
    /\ matches = << >>
    /\ edata = JNull
    /\ ets = 0
    /\ epath = << >>
    /\ InitDescent
    /\ ZoneNew
    /\ owner = noop_vis(NodeDefault)
    /\ plain = tree

\* tree.merge(&mut d) with a diff that holds a node and an ancestor
\* visibility
TreeMerge ==
    /\ nops < MaxTreeOps
    /\ \E n \in TreeNodeDiffs, v \in TreeVises \ {VisPermanent} :
          MergeStep([node |-> n, vis |-> v], "tree")

NextTree == TreeMerge

SpecTree == InitTree /\ [][NextTree]_vars

\* ------------------------------------------------- observation of the state
\* What a full `*#` read of NodeTree t returns
ReadAll(t) == NodeTreeRead(t, <<"*#">>).update

\* The entry of Option<Update> u at path p, None when there is none
RECURSIVE UpdateAt(_, _)
UpdateAt(u, p) ==
    IF IsNone(u) \/ p = << >> THEN u
    ELSE IF IsSome(u[1].keys) /\ Head(p) \in DOMAIN u[1].keys[1]
    THEN UpdateAt(Some(u[1].keys[1][Head(p)]), Tail(p))
    ELSE None

\* Option<Update> u has an entry with changed = true at path p
ChangedAt(u, p) == IsSome(UpdateAt(u, p)) /\ UpdateAt(u, p)[1].changed

\* The value a read that returned u reports at path p, None when it reports none
Reported(u, p) == IF ChangedAt(u, p) THEN UpdateAt(u, p)[1].new ELSE None

\* The node of Node n at path p, None when there is none
RECURSIVE NodeAt(_, _)
NodeAt(n, p) ==
    IF p = << >> THEN Some(n)
    ELSE IF IsSome(n.keys) /\ Head(p) \in DOMAIN n.keys[1]
    THEN NodeAt(n.keys[1][Head(p)], Tail(p))
    ELSE None

\* Some node below n (not n itself) has its delegation flag active
RECURSIVE ActiveBelow(_)
ActiveBelow(n) ==
    /\ IsSome(n.keys)
    /\ \E k \in DOMAIN n.keys[1] :
          Active(n.keys[1][k].delegated) \/ ActiveBelow(n.keys[1][k])

\* The last operation merged a diff
Merged1 == op \in {"merge", "vis", "remerge"}

\* Diffs a and b give some node the same non-zero update timestamp with
\* different values
RECURSIVE Conflict(_, _)
Conflict(a, b) ==
    \/ (a.vis.updated = b.vis.updated /\ a.vis.updated > 0 /\ a.value # b.value)
    \/ /\ IsSome(a.keys) /\ IsSome(b.keys)
       /\ \E k \in DOMAIN a.keys[1] \cap DOMAIN b.keys[1] :
             Conflict(a.keys[1][k], b.keys[1][k])

\* The non-zero update and delete timestamps of diff n
RECURSIVE Stamps(_)
Stamps(n) ==
    ({n.vis.updated, n.vis.deleted} \ {0})
    \cup (IF IsSome(n.keys)
          THEN UNION {Stamps(n.keys[1][k]) : k \in DOMAIN n.keys[1]}
          ELSE {})

\* Diff n carries a delegation marker with the active flag clear
RECURSIVE Undelegates(_)
Undelegates(n) ==
    \/ (n.delegated > 0 /\ ~Active(n.delegated))
    \/ /\ IsSome(n.keys)
       /\ \E k \in DOMAIN n.keys[1] : Undelegates(n.keys[1][k])

\* The child of Node n at key k, an empty node when there is none
ChildOrDefault(n, k) ==
    IF IsSome(n.keys) /\ k \in DOMAIN n.keys[1] THEN n.keys[1][k] ELSE NodeDefault

\* Every update and delete timestamp of diff d is at most the one Node n
\* stores at the same place (0 where n stores no node)
RECURSIVE Stale(_, _)
Stale(d, n) ==
    /\ d.vis.updated <= n.vis.updated
    /\ d.vis.deleted <= n.vis.deleted
    /\ IsSome(d.keys) =>
          \A k \in DOMAIN d.keys[1] : Stale(d.keys[1][k], ChildOrDefault(n, k))

\* Every delegation marker of diff d is at most the one Node n stores at the
\* same place
RECURSIVE StaleMarkers(_, _)
StaleMarkers(d, n) ==
    /\ d.delegated <= n.delegated
    /\ IsSome(d.keys) =>
          \A k \in DOMAIN d.keys[1] :
             StaleMarkers(d.keys[1][k], ChildOrDefault(n, k))

\* Every path of a node of the model
AllPaths == Paths(2)

\* The timestamps, value and delegation marker of a node
Own(n) == [vis |-> n.vis, value |-> n.value, delegated |-> n.delegated]

\* Node new has every node of Node old, with the same timestamps, value and
\* delegation marker, and no other node
SameNodes(old, new) ==
    \A p \in AllPaths :
       /\ IsSome(NodeAt(old, p)) <=> IsSome(NodeAt(new, p))
       /\ IsSome(NodeAt(old, p)) => Own(NodeAt(new, p)[1]) = Own(NodeAt(old, p)[1])

\* The effective visibility of the node of n at path p: the ancestor window
\* vis descended through every node on the path
RECURSIVE EffectiveVis(_, _, _)
EffectiveVis(vis, n, p) ==
    IF p = << >> THEN descend(vis, n.vis)
    ELSE EffectiveVis(descend(vis, n.vis), n.keys[1][Head(p)], Tail(p))

\* The diff hands Node old, stored at path p, a newer delegation marker that
\* sets the active flag
SetsActive(d, old, p) ==
    /\ p # << >>
    /\ IsSome(NodeAt(d, p))
    /\ IsSome(NodeAt(old, p))
    /\ Active(NodeAt(d, p)[1].delegated)
    /\ NodeAt(d, p)[1].delegated > NodeAt(old, p)[1].delegated
    /\ ~Active(NodeAt(old, p)[1].delegated)

\* The positions of the Externals for path p
ExternalsFor(p) == {i \in DOMAIN externals : externals[i].path = p}

\* The part of the pattern (path, pos) a read still has to match when it has
\* walked down p, None when the pattern does not lead there
RECURSIVE Remainder(_, _, _)
Remainder(path, pos, p) ==
    IF p = << >> THEN Some(SubSeq(path, pos + 1, Len(path)))
    ELSE IF pos >= Len(path) THEN None
    ELSE IF path[pos + 1] = "**" THEN Remainder(<<"*#">>, 0, Tail(p))
    ELSE IF path[pos + 1] = "*#" THEN Remainder(path, pos, Tail(p))
    ELSE IF path[pos + 1] = "*" \/ path[pos + 1] = Head(p)
    THEN Remainder(path, pos + 1, Tail(p))
    ELSE None

\* No node strictly between the root and path p is actively delegated
NoBoundaryAbove(n, p) ==
    \A i \in 1..(Len(p) - 1) : ~Active(NodeAt(n, SubSeq(p, 1, i))[1].delegated)

\* The positions of the DelegatedMatches for path p
MatchesFor(p) == {i \in DOMAIN matches : matches[i].path = p}

\* The last two merges, and the replica that merged their diffs in the other
\* order
TwoMerges == nops >= 2 /\ Merged1

\* ------------------------------------------------------------------ claims
\* C2: for a tree without delegated nodes and an unchanged ancestor window, a
\* path carries changed = true in the Update a merge returns if and only if
\* what a full `*#` read reports at that path differs before and after the
\* merge, at every depth.
C2_UpdateIsObservableChange ==
    (/\ Merged1
     /\ prev.vis = tree.vis
     /\ ~ActiveBelow(prev.node)
     /\ ~ActiveBelow(tree.node))
    => \A p \in Paths(2) :
          ChangedAt(update, p)
          <=> (Reported(ReadAll(prev), p) # Reported(ReadAll(tree), p))

\* C1 (as claimed): for any two diffs, merging A then B and merging B then A
\* leave the same observable state: a full `*#` read returns the same in both
\* orders.
C1_OrderIndependence ==
    TwoMerges => ReadAll(tree) = ReadAll(swapped)

\* C1 (amended): for any two diffs that do not give the same node the same
\* update timestamp with different values and do not clear a delegation flag,
\* a full `*#` read returns the same after merging them in either order.
C1_OrderIndependenceNoConflict ==
    (/\ TwoMerges
     /\ ~Conflict(pdiff0.node, diff0.node)
     /\ ~Undelegates(pdiff0.node)
     /\ ~Undelegates(diff0.node))
    => ReadAll(tree) = ReadAll(swapped)

\* C1 witness: two diffs that share an update timestamp without a conflict
\* were merged, each changed the stored node, and the read returns values.
C1_Witness ==
    /\ TwoMerges
    /\ ~Conflict(pdiff0.node, diff0.node)
    /\ ~Undelegates(pdiff0.node)
    /\ ~Undelegates(diff0.node)
    /\ Stamps(pdiff0.node) \cap Stamps(diff0.node) # {}
    /\ pdiff0 # diff0
    /\ tree.node # prev.node
    /\ swapped.node # tree.node
    /\ IsSome(ReadAll(tree))
    /\ ReadAll(tree) = ReadAll(swapped)

\* C4 (as claimed): for two diffs in which no update or delete timestamp of
\* one equals one of the other, merging A then B and merging B then A leave
\* the same observable state.
C4_CommutativeDisjoint ==
    (/\ TwoMerges
     /\ Stamps(pdiff0.node) \cap Stamps(diff0.node) = {})
    => ReadAll(tree) = ReadAll(swapped)

\* C4 (amended): for two diffs with no update or delete timestamp in common,
\* neither of which clears a delegation flag, merging A then B and merging B
\* then A leave the same observable state.
C4_CommutativeDisjointNoUndelegate ==
    (/\ TwoMerges
     /\ Stamps(pdiff0.node) \cap Stamps(diff0.node) = {}
     /\ ~Undelegates(pdiff0.node)
     /\ ~Undelegates(diff0.node))
    => ReadAll(tree) = ReadAll(swapped)

\* C4 witness: two diffs with different timestamps wrote different values to
\* the same node, and both orders read the newer one.
C4_Witness ==
    /\ TwoMerges
    /\ Stamps(pdiff0.node) \cap Stamps(diff0.node) = {}
    /\ pdiff0.node.vis.updated > diff0.node.vis.updated
    /\ diff0.node.vis.updated > 0
    /\ pdiff0.node.value # diff0.node.value
    /\ Reported(ReadAll(tree), << >>) = Some(pdiff0.node.value)
    /\ ReadAll(tree) = ReadAll(swapped)

\* C3: after a diff has been merged, merging the same diff again, as the
\* first merge left it, returns no Update.
C3_Idempotent ==
    op = "remerge" => update = None

\* C3 witness: a diff whose update the first merge adopted at the root was
\* merged again, and the read returns values.
C3_Witness ==
    /\ op = "remerge"
    /\ diff0.node.vis.updated > 0
    /\ diff0.node.vis.updated = tree.node.vis.updated
    /\ diff0.node.value = tree.node.value
    /\ IsSome(ReadAll(tree))
    /\ update = None

\* C5: when every update and delete timestamp of a diff is at most the
\* corresponding stored one (and, so that no delegation change is involved,
\* every delegation marker too), merge under an unchanged ancestor window
\* returns no Update and leaves the stored values, timestamps and children
\* unchanged.
C5_StaleDiscarded ==
    (/\ Merged1
     /\ prev.vis = tree.vis
     /\ Stale(diff0.node, prev.node)
     /\ StaleMarkers(diff0.node, prev.node))
    => (update = None /\ SameNodes(prev.node, tree.node))

\* C6: read never returns a value (new present) for a node whose effective
\* visibility has deleted >= updated, whatever scalar the node still stores.
C6_TombstonePrecedence ==
    op = "read" =>
       \A p \in AllPaths :
          (/\ IsSome(NodeAt(tree.node, p))
           /\ EffectiveVis(tree.vis, tree.node, p).deleted
                 >= EffectiveVis(tree.vis, tree.node, p).updated)
          => ~(IsSome(UpdateAt(rupdate, p)) /\ IsSome(UpdateAt(rupdate, p)[1].new))

\* C6 witness: a full read returned the value of the root while a child that
\* still stores a scalar, with deleted = updated > 0, was left out.
C6_Witness ==
    /\ op = "read"
    /\ pattern = <<"*#">>
    /\ IsSome(Reported(rupdate, << >>))
    /\ \E k \in Keys :
          /\ IsSome(NodeAt(tree.node, <<k>>))
          /\ NodeAt(tree.node, <<k>>)[1].value \in Scalars
          /\ NodeAt(tree.node, <<k>>)[1].vis.updated > 0
          /\ NodeAt(tree.node, <<k>>)[1].vis.deleted
                = NodeAt(tree.node, <<k>>)[1].vis.updated
          /\ IsNone(UpdateAt(rupdate, <<k>>))

\* C7: merging a diff that sets the delegation-active flag on a non-root node
\* that holds children produces exactly one External for that node, with the
\* node's path, initial = true and the children, value and Vis the node held,
\* and the stored node keeps only its delegation marker.
C7_DelegationHandOff ==
    op = "merge" =>
       \A p \in AllPaths :
          (/\ SetsActive(diff0.node, prev.node, p)
           /\ IsSome(NodeAt(prev.node, p)[1].keys)
           /\ NodeAt(prev.node, p)[1].keys[1] # EmptyMap)
          => /\ Cardinality(ExternalsFor(p)) = 1
             /\ \A i \in ExternalsFor(p) :
                   /\ externals[i].initial
                   /\ externals[i].tree.node.keys = NodeAt(prev.node, p)[1].keys
                   /\ externals[i].tree.node.value = NodeAt(prev.node, p)[1].value
                   /\ externals[i].tree.node.vis = NodeAt(prev.node, p)[1].vis
             /\ NodeAt(tree.node, p)
                   = Some(MkNode(VisDefault, Null, None,
                                 NodeAt(diff0.node, p)[1].delegated))

\* C7 witness: a node with two children was handed off.
C7_Witness ==
    /\ op = "merge"
    /\ SetsActive(diff0.node, prev.node, <<"a">>)
    /\ IsSome(NodeAt(prev.node, <<"a", "a">>))
    /\ IsSome(NodeAt(prev.node, <<"a", "b">>))
    /\ Len(externals) = 1
    /\ externals[1].path = <<"a">>
    /\ DOMAIN externals[1].tree.node.keys[1] = {"a", "b"}

\* C8: on the initial transition of a non-root node into delegation, the
\* merge surfaces a local Update for that node: a non-None entry at its key.
C8_InitialDelegationSurfaced ==
    op = "merge" =>
       \A p \in AllPaths :
          SetsActive(diff0.node, prev.node, p) => IsSome(UpdateAt(update, p))

\* C9: whenever merge emits an External with initial = false for a node, the
\* Update it returns has no entry at that node's path.
C9_HandedOffUpdateEmpty ==
    Merged1 =>
       \A i \in DOMAIN externals :
          ~externals[i].initial => IsNone(UpdateAt(update, externals[i].path))

\* C9 witness: a diff wrote a value that would be visible to an already
\* delegated node under a visible root; the value left in an External.
C9_Witness ==
    /\ op = "merge"
    /\ Len(externals) = 1
    /\ ~externals[1].initial
    /\ externals[1].tree.node.value \in Scalars
    /\ is_visible(externals[1].tree.vis)
    /\ IsNone(UpdateAt(update, externals[1].path))

\* C10: when read reaches a non-root node whose delegation flag is active it
\* returns, for that node, an Update with delegated = Some(true) and nothing
\* else, and exactly one DelegatedMatch whose path is the path walked and
\* whose match_spec is the remainder of the pattern; it reports no other
\* DelegatedMatch, and the root is read as if its flag were clear.
C10_ReadStopsAtBoundary ==
    op = "read" =>
       /\ \A p \in AllPaths \ {<< >>} :
             (/\ IsSome(NodeAt(tree.node, p))
              /\ Active(NodeAt(tree.node, p)[1].delegated)
              /\ NoBoundaryAbove(tree.node, p)
              /\ IsSome(Remainder(pattern, 0, p)))
             => /\ Cardinality(MatchesFor(p)) = 1
                /\ \A i \in MatchesFor(p) :
                      matches[i].match_spec = Remainder(pattern, 0, p)[1]
                /\ UpdateAt(rupdate, p)
                      = Some([UpdateDefault EXCEPT !.delegated = Some(TRUE)])
       /\ \A i \in DOMAIN matches :
             /\ matches[i].path # << >>
             /\ IsSome(NodeAt(tree.node, matches[i].path))
             /\ Active(NodeAt(tree.node, matches[i].path)[1].delegated)
             /\ IsSome(Remainder(pattern, 0, matches[i].path))
       /\ rupdate = NodeTreeRead([tree EXCEPT !.node.delegated = 0], pattern).update

\* C10 witness: a read with a two-segment pattern stopped at a delegated
\* child, with one segment left, under a root that read its own children.
C10_Witness ==
    /\ op = "read"
    /\ Len(pattern) = 2
    /\ Len(matches) = 1
    /\ Len(matches[1].path) = 1
    /\ Len(matches[1].match_spec) = 1
    /\ IsSome(rupdate)

\* ------------------------------------------------------- claims about read
\* The keys of the children of Node n
Children(n) == IF IsSome(n.keys) THEN DOMAIN n.keys[1] ELSE {}

\* The children of the root of NodeTree t that are effectively visible
VisibleChildren(t) ==
    {k \in Children(t.node) : is_visible(EffectiveVis(t.vis, t.node, <<k>>))}

\* The children of the root of NodeTree t that are actively delegated
DelegatedChildren(t) ==
    {k \in Children(t.node) : Active(t.node.keys[1][k].delegated)}

\* The Update read returns for a node of which it reads the value v alone
ValueEntry(v) == [UpdateDefault EXCEPT !.changed = TRUE, !.new = Some(v)]

\* Option<Update> u holds nothing of its own and exactly the entries
\* entry[k], k in ks, as children; it is None when ks is empty
OnlyChildren(u, ks, entry) ==
    IF ks = {} THEN u = None
    ELSE /\ IsSome(u)
         /\ u[1] = [UpdateDefault EXCEPT !.keys = Some([k \in ks |-> entry[k]])]

\* C11 (as claimed): read(["*"]) returns an Update whose children are exactly
\* the effectively visible children of the node, each with changed = true and
\* new = its stored value, without the node's own value and without
\* grandchildren; read of a literal key that is not a child returns None.
C11_OneLevelWildcard ==
    op = "read" =>
       /\ pattern = <<"*">> =>
             OnlyChildren(rupdate, VisibleChildren(tree),
                          [k \in VisibleChildren(tree) |->
                             ValueEntry(tree.node.keys[1][k].value)])
       /\ (Len(pattern) = 1 /\ pattern[1] \in Keys \ Children(tree.node)) =>
             rupdate = None

\* C11 (amended): read(["*"]) returns an Update whose children are exactly
\* the effectively visible children that are not actively delegated, each
\* with changed = true and new = its stored value, and the actively delegated
\* children, each with delegated = Some(true) alone; it holds neither the
\* node's own value nor grandchildren.  read of a literal key that is not a
\* child returns None.
C11_OneLevelWildcardBoundary ==
    op = "read" =>
       /\ pattern = <<"*">> =>
             OnlyChildren(rupdate,
                          (VisibleChildren(tree) \cup DelegatedChildren(tree)),
                          [k \in VisibleChildren(tree) \cup DelegatedChildren(tree) |->
                             IF k \in DelegatedChildren(tree)
                             THEN [UpdateDefault EXCEPT !.delegated = Some(TRUE)]
                             ELSE ValueEntry(tree.node.keys[1][k].value)])
       /\ (Len(pattern) = 1 /\ pattern[1] \in Keys \ Children(tree.node)) =>
             rupdate = None

\* C11 witness: read(["*"]) of a visible root with a value, whose child a is
\* visible and has visible children of its own and whose child b is visible,
\* returned the values of a and b alone.
C11_Witness ==
    /\ op = "read"
    /\ pattern = <<"*">>
    /\ is_visible(EffectiveVis(tree.vis, tree.node, << >>))
    /\ VisibleChildren(tree) = {"a", "b"}
    /\ DelegatedChildren(tree) = {}
    /\ IsSome(NodeAt(tree.node, <<"a", "a">>))
    /\ is_visible(EffectiveVis(tree.vis, tree.node, <<"a", "a">>))
    /\ tree.node.keys[1]["b"].value \in Scalars
    /\ IsSome(rupdate)
    /\ DOMAIN rupdate[1].keys[1] = {"a", "b"}

\* The node at path p of Node n, or a node above it other than the root, is
\* actively delegated
AtOrBehindBoundary(n, p) ==
    \E i \in 1..Len(p) : Active(NodeAt(n, SubSeq(p, 1, i))[1].delegated)

\* The pattern leads a read to path p and there the cursor has consumed the
\* whole pattern or the active segment is "*#"
SelfRead(path, p) ==
    /\ IsSome(Remainder(path, 0, p))
    /\ \/ Remainder(path, 0, p)[1] = << >>
       \/ Head(Remainder(path, 0, p)[1]) = "*#"

\* Option<Update> u reports the value of the node at path p of NodeTree t
\* exactly when want holds
ValueIff(u, t, p, want) ==
    IF want THEN /\ IsSome(UpdateAt(u, p))
                 /\ UpdateAt(u, p)[1].changed
                 /\ UpdateAt(u, p)[1].new = Some(NodeAt(t.node, p)[1].value)
                 /\ IsNone(UpdateAt(u, p)[1].old)
    ELSE \/ IsNone(UpdateAt(u, p))
         \/ (~UpdateAt(u, p)[1].changed /\ IsNone(UpdateAt(u, p)[1].new))

ExpandKeys == Keys \cup {IndexKey(i) : i \in 0..(MaxArr - 1)}
ExpandPaths == UNION {[1..i -> ExpandKeys] : i \in 0..2}

\* The element of JSON j under key k: an object field or, for the stringified
\* index of an array element, that element; None when there is none
JChild(j, k) ==
    IF j.type = "object"
    THEN (IF k \in DOMAIN j.fields THEN Some(j.fields[k]) ELSE None)
    ELSE IF j.type = "array"
    THEN (IF \E i \in DOMAIN j.elems : IndexKey(i - 1) = k
          THEN Some(j.elems[CHOOSE i \in DOMAIN j.elems : IndexKey(i - 1) = k])
          ELSE None)
    ELSE None

\* The part of JSON j at path p, None when there is none
RECURSIVE JAt(_, _)
JAt(j, p) ==
    IF p = << >> THEN Some(j)
    ELSE IF IsSome(JChild(j, Head(p))) THEN JAt(JChild(j, Head(p))[1], Tail(p))
    ELSE None

IsScalar(j) == j.type \notin {"object", "array"}

\* The Value that equals the JSON scalar j
ValueOf(j) ==
    IF j.type = "null" THEN Null
    ELSE IF j.type = "bool" THEN ValueBool(j.b)
    ELSE IF j.type = "number" THEN ValueF64(j.bits)
    ELSE j.s

\* Option<Update> u holds no value at path p: no entry, or an entry whose
\* new is absent or Null
NoValueAt(u, p) ==
    \/ IsNone(UpdateAt(u, p))
    \/ IsNone(UpdateAt(u, p)[1].new)
    \/ UpdateAt(u, p)[1].new = Some(Null)

\* C13: for any structured value and any timestamp t >= 1, expand(value, t)
\* followed by read(["*#"]) under an always-visible ancestor window returns
\* an Update that contains every scalar of the value at its path (changed =
\* true, new = the scalar), array elements under their stringified index, and
\* no other value.
C13_ExpandReadRoundTrip ==
    (op = "expand" /\ ets >= 1) =>
       \A p \in ExpandPaths :
          IF IsSome(JAt(edata, p)) /\ IsScalar(JAt(edata, p)[1])
          THEN /\ IsSome(UpdateAt(rupdate, p))
               /\ UpdateAt(rupdate, p)[1].changed
               /\ UpdateAt(rupdate, p)[1].new = Some(ValueOf(JAt(edata, p)[1]))
          ELSE NoValueAt(rupdate, p)

\* ---------------------------------------------------- claims about filter
\* JSON j wrapped under the keys of path p, innermost last
RECURSIVE Wrapped(_, _)
Wrapped(p, j) ==
    IF p = << >> THEN j
    ELSE JArray(<<JObject([k \in {Head(p)} |-> Wrapped(Tail(p), j)]), JNull, JNull>>)

\* The value an Update with changed = true and new = v renders as
Leaf(v) == JArray(<<JNull, JBool(TRUE), ValueJson(v)>>)

\* C14 (as claimed): for an Update whose change (changed = true, new = v)
\* sits at path [a, b], filter([a, b]) yields [absent, true, v], and filter of
\* a path whose branch does not exist in the Update yields Null.
C14_FilterLiteral ==
    (op = "read" /\ IsSome(rupdate)) =>
       \A p \in AllPaths :
          Len(p) = 2 =>
             /\ (ChangedAt(rupdate, p) /\ IsSome(UpdateAt(rupdate, p)[1].new)) =>
                   filter(rupdate[1], p) = Leaf(UpdateAt(rupdate, p)[1].new[1])
             /\ IsNone(UpdateAt(rupdate, p)) => filter(rupdate[1], p) = JNull

\* C14 (amended): for an Update whose change (changed = true, new = v) sits
\* at a literal path, filter of that path yields [absent, true, v] wrapped,
\* for every key of the path from the last to the first, as the single child
\* of a [children, absent, absent] rendering; filter of a path whose branch
\* does not exist in the Update yields Null.
C14_FilterLiteralWrapped ==
    (op = "read" /\ IsSome(rupdate)) =>
       \A p \in AllPaths :
          /\ (ChangedAt(rupdate, p) /\ IsSome(UpdateAt(rupdate, p)[1].new)) =>
                filter(rupdate[1], p)
                   = Wrapped(p, Leaf(UpdateAt(rupdate, p)[1].new[1]))
          /\ IsNone(UpdateAt(rupdate, p)) => filter(rupdate[1], p) = JNull

\* C14 witness: a read returned an Update with the value "x" at [a, b] and
\* with no branch [b, a], and with changes above [a, b].
C14_Witness ==
    /\ op = "read"
    /\ IsSome(rupdate)
    /\ ChangedAt(rupdate, << >>)
    /\ ChangedAt(rupdate, <<"a">>)
    /\ Reported(rupdate, <<"a", "b">>) = Some("x")
    /\ IsNone(UpdateAt(rupdate, <<"b", "a">>))
    /\ IsSome(UpdateAt(rupdate, <<"b">>))
    /\ filter(rupdate[1], <<"a", "b">>) # JNull
    /\ filter(rupdate[1], <<"b", "a">>) = JNull

\* What filter of pattern p yields on the Update of a full read of tree t,
\* Null when the full read returns no Update
FilterOfFullRead(t, p) ==
    IF IsNone(ReadAll(t)) THEN JNull ELSE filter(ReadAll(t)[1], p)

\* The rendering of the Update a read returned, Null for no Update
Rendered(u) == IF IsNone(u) THEN JNull ELSE to_json(u[1])

\* C15: filter has the same pattern semantics as read: with U the Update of
\* a full *# read of the tree, U.filter(p) equals the to_json rendering of
\* read(p) on the same tree, and is Null when read(p) returns None, for every
\* pattern p.
C15_FilterMatchesRead ==
    op = "read" => FilterOfFullRead(tree, pattern) = Rendered(rupdate)

\* ------------------------------------------- claims about NodeTree::merge
\* The pairwise maximum of two Vis
PairMax(v, w) ==
    VisNew(IF v.updated >= w.updated THEN v.updated ELSE w.updated,
           IF v.deleted >= w.deleted THEN v.deleted ELSE w.deleted)

\* C16: stored ancestor visibility never regresses: after each
\* NodeTree::merge, tree.vis.updated and tree.vis.deleted are not below what
\* was stored before, the stored vis is the pairwise maximum of the vis
\* stored before and the incoming diff's vis, and the node, the Update and
\* the Externals are those of Node::merge called with the vis stored before
\* as vis_old and that maximum as vis_new.
C16_VisNeverRegresses ==
    op = "tree" =>
       /\ tree.vis.updated >= prev.vis.updated
       /\ tree.vis.deleted >= prev.vis.deleted
       /\ tree.vis = PairMax(prev.vis, diff0.vis)
       /\ diff.vis = tree.vis
       /\ tree.node = NodeMerge(prev.node, diff0.node, prev.vis,
                                PairMax(prev.vis, diff0.vis)).node
       /\ update = NodeMerge(prev.node, diff0.node, prev.vis,
                             PairMax(prev.vis, diff0.vis)).update
       /\ externals = NodeMerge(prev.node, diff0.node, prev.vis,
                                PairMax(prev.vis, diff0.vis)).externals

\* C16 witness: the second merge into a tree brought a newer update claim
\* and a stale delete claim, and the changed window produced an Update.
C16_Witness ==
    /\ op = "tree"
    /\ nops = 2
    /\ diff0.vis.updated > prev.vis.updated
    /\ diff0.vis.deleted < prev.vis.deleted
    /\ prev.vis.updated > 0
    /\ IsSome(update)

\* C17: merging a no-op diff changes nothing: NodeTree::merge with a default
\* NodeTree diff (all-zero vis, Null value, no children, not delegated)
\* returns no Update and no External, and leaves the tree's node and vis as
\* they were.
C17_NoopDiffChangesNothing ==
    (op \in {"merge", "vis", "remerge", "tree"} /\ diff0 = noop_vis(NodeDefault)) =>
       /\ update = None
       /\ externals = << >>
       /\ tree = prev

\* C17 witness: the default diff was merged into a tree that holds a visible
\* value under a key and an actively delegated key.
C17_Witness ==
    /\ op = "merge"
    /\ diff0 = noop_vis(NodeDefault)
    /\ \E p \in AllPaths : Reported(ReadAll(prev), p) = Some("x")
    /\ \E k \in Keys : /\ IsSome(NodeAt(prev.node, <<k>>))
                       /\ Active(NodeAt(prev.node, <<k>>)[1].delegated)

\* ------------------------------------------------- claims about descend
\* C18: descend law: for any Vis V and child Vis C, V.descend(C) is exactly
\* (min(V.updated, C.updated), max(V.deleted, C.deleted)), and descending
\* through C1 and then C2 equals descending through the descent of C1 by C2.
C18_DescendLaw ==
    op = "descend" =>
       /\ descent.first
             = VisNew(IF descent.self.updated <= descent.child1.updated
                      THEN descent.self.updated ELSE descent.child1.updated,
                      IF descent.self.deleted >= descent.child1.deleted
                      THEN descent.self.deleted ELSE descent.child1.deleted)
       /\ descent.second
             = descend(descent.self, descend(descent.child1, descent.child2))

\* C18 witness: a descent where the first child lowers updated, the second
\* child raises deleted, and the result is no longer visible.
C18_Witness ==
    /\ op = "descend"
    /\ descent.child1.updated < descent.self.updated
    /\ descent.child2.deleted > descent.first.deleted
    /\ descent.child2.updated > descent.first.updated
    /\ is_visible(descent.first)
    /\ ~is_visible(descent.second)

\* ------------------------------------------- claims about expand's result
\* Node n is what the claim gives for JSON j at timestamp t, children aside;
\* its keys are the field names of j or the stringified indices of its
\* elements
ExpandedAs(n, j, t) ==
    /\ n.vis = VisNew(t, 0)
    /\ n.delegated = 0
    /\ n.value = (IF IsScalar(j) THEN ValueOf(j) ELSE Null)
    /\ IF IsScalar(j) THEN IsNone(n.keys)
       ELSE /\ IsSome(n.keys)
            /\ DOMAIN n.keys[1] = {k \in ExpandKeys : IsSome(JChild(j, k))}

\* Node n is a placeholder with the single child k
PlaceholderFor(n, k) ==
    /\ n.vis = VisDefault
    /\ n.value = Null
    /\ n.delegated = 0
    /\ IsSome(n.keys)
    /\ DOMAIN n.keys[1] = {k}

\* C19: expand(value, t) stamps every produced node with updated = t and
\* deleted = 0, gives scalars their value and containers the value Null, turns
\* object fields into child keys and array elements into children keyed by
\* their stringified index; expand_from(path, value, t) wraps that result in
\* one single-child placeholder node (default Vis, Null value, not delegated)
\* per path segment, in path order.
C19_ExpandStructure ==
    /\ op = "expand" =>
          \A p \in ExpandPaths :
             /\ IsSome(NodeAt(tree.node, p)) <=> IsSome(JAt(edata, p))
             /\ IsSome(JAt(edata, p)) =>
                   ExpandedAs(NodeAt(tree.node, p)[1], JAt(edata, p)[1], ets)
    /\ op = "expand_from" =>
          /\ \A i \in 1..Len(epath) :
                /\ IsSome(NodeAt(diff.node, SubSeq(epath, 1, i - 1)))
                /\ PlaceholderFor(NodeAt(diff.node, SubSeq(epath, 1, i - 1))[1],
                                  epath[i])
          /\ NodeAt(diff.node, epath) = Some(expand(edata, ets))
          /\ \A p \in ExpandPaths :
                IsSome(JAt(edata, p)) =>
                   /\ IsSome(NodeAt(diff.node, epath \o p))
                   /\ ExpandedAs(NodeAt(diff.node, epath \o p)[1],
                                 JAt(edata, p)[1], ets)

\* ------------------------------------------------ claims about Zone::write
\* C20: Zone::write(path, ts, value) builds a diff for the addressed path and
\* merges it into the zone's stored data while it holds the zone's exclusive
\* lock: two writes never hold the lock together, and once a write has
\* returned, with no other write under way, the zone's data holds the written
\* value at that path.
C20_ZoneWriteIngested ==
    /\ \A w \in Writers : zpc[w] = "locked" <=> zlock = w
    /\ \A w \in Writers :
          (zpc[w] = "returned" /\ \A o \in Writers \ {w} : zpc[o] = "idle") =>
             Reported(ReadAll([node |-> zdata, vis |-> VisPermanent]),
                      zargs[w].path) = Some(ValueOf(zargs[w].value))

\* ------------------------------------- claims about delegation boundaries
\* The node stored at path p is a non-root node whose delegation flag is
\* active
ActiveAt(n, p) ==
    /\ p # << >>
    /\ IsSome(NodeAt(n, p))
    /\ Active(NodeAt(n, p)[1].delegated)

\* C21: no local payload behind a delegation boundary: after any sequence of
\* merges, every non-root node whose delegation flag is active stores no
\* children, a Null value and a default (0, 0) Vis.
C21_NoPayloadBehindBoundary ==
    \A p \in AllPaths :
       ActiveAt(tree.node, p) =>
          /\ NodeAt(tree.node, p)[1].keys = None
          /\ NodeAt(tree.node, p)[1].value = Null
          /\ NodeAt(tree.node, p)[1].vis = VisDefault

\* -------------------------------------------- claims about propagation
\* C22: delete propagation reaches every child: when a merge makes a node
\* adopt a newer delete timestamp D, then after the call every child the node
\* had, and recursively every descendant, has a stored deleted timestamp
\* >= D, whatever the key order and the timestamps of its siblings.
C22_DeleteReachesEveryChild ==
    Merged1 =>
       \A p \in AllPaths, q \in AllPaths :
          (/\ Len(q) > Len(p)
           /\ SubSeq(q, 1, Len(p)) = p
           /\ IsSome(NodeAt(prev.node, q))
           /\ IsSome(NodeAt(tree.node, q))
           /\ NodeAt(tree.node, p)[1].vis.deleted
                 > NodeAt(prev.node, p)[1].vis.deleted)
          => NodeAt(tree.node, q)[1].vis.deleted
                >= NodeAt(tree.node, p)[1].vis.deleted

\* ------------------------------------- claims about the visibility table
\* The last merge visited the node at path p: the diff addresses it, or it
\* existed and its parent adopted a timestamp, which is propagated to every
\* child
VisitedAt(p) ==
    \/ IsSome(NodeAt(diff0.node, p))
    \/ /\ p # << >>
       /\ IsSome(NodeAt(prev.node, p))
       /\ NodeAt(prev.node, SubSeq(p, 1, Len(p) - 1))[1].vis
             # NodeAt(tree.node, SubSeq(p, 1, Len(p) - 1))[1].vis

\* The row of the (old_vis, new_vis) table the last merge is in for the node
\* at path p: whether the node was effectively visible before the merge and
\* is after it (a node that is not stored is not visible), and for a node
\* that stays visible whether its value changed
TableRow(p) ==
    LET old_vis == /\ IsSome(NodeAt(prev.node, p))
                   /\ is_visible(EffectiveVis(prev.vis, prev.node, p))
        new_vis == /\ IsSome(NodeAt(tree.node, p))
                   /\ is_visible(EffectiveVis(tree.vis, tree.node, p))
    IN IF ~old_vis /\ ~new_vis THEN "false->false"
       ELSE IF ~old_vis THEN "false->true"
       ELSE IF ~new_vis THEN "true->false"
       ELSE IF NodeAt(prev.node, p)[1].value # NodeAt(tree.node, p)[1].value
       THEN "true->true changed"
       ELSE "true->true"

CombinedAt(q) ==
    IF \E i \in DOMAIN matches :
          /\ Len(q) >= Len(matches[i].path)
          /\ SubSeq(q, 1, Len(matches[i].path)) = matches[i].path
    THEN LET m == matches[CHOOSE i \in DOMAIN matches :
                             /\ Len(q) >= Len(matches[i].path)
                             /\ SubSeq(q, 1, Len(matches[i].path)) = matches[i].path]
         IN Reported(NodeTreeRead(owner, m.match_spec).update,
                     SubSeq(q, Len(m.path) + 1, Len(q)))
    ELSE Reported(rupdate, q)

\* C25: cross-zone equivalence: with every External of a merge forwarded to
\* the owning zone and merged there as a NodeTree diff, and every
\* DelegatedMatch of a read re-issued there, a read put together from both
\* zones reports, at every path, what the same read reports on one tree that
\* merged the same diffs without the delegation.
C25_CrossZoneEquivalence ==
    op = "cross read" =>
       \A q \in AllPaths :
          CombinedAt(q) = Reported(NodeTreeRead(plain, pattern).update, q)

\* --------------------------------------------- claims about deep writes
\* C26: write then read at a deep path: for any path, also one whose
\* intermediate nodes are not stored yet, merging expand_from(path, value, t)
\* with t newer than every stored timestamp into a NodeTree whose root and
\* ancestor window are visible makes a following read of that path return the
\* written value with changed = true.
C26_DeepWriteRead ==
    \A v \in Scalars, t \in Timestamps :
       (/\ op = "read"
        /\ pattern \in AllPaths
        /\ is_visible(descend(prev.vis, prev.node.vis))
        /\ diff0 = noop_vis(expand_from(pattern, JString(v), t))
        /\ \A st \in Stamps(prev.node) : t > st)
       => /\ ChangedAt(rupdate, pattern)
          /\ Reported(rupdate, pattern) = Some(v)

====
